---- MODULE Spec2Model ----
(***************************************************************************)
(* Job tracker: location classifier (tracker.py), source adapters and      *)
(* aggregator (tracker.py), seen-set store and dedup filter (storage.py).  *)
(* Strings whose characters matter are sequences of one-character strings. *)
(***************************************************************************)
EXTENDS Integers, Sequences, FiniteSets, TLC

VARIABLES
  \* --- tracker.py: JobTracker.is_us_location
  location,     \* the argument of the is_us_location call
  include,      \* its return value
  classified,   \* TRUE once is_us_location has returned
  \* --- storage.py: the module-level store and the file behind it
  file,         \* content of the storage file (seen.json)
  storage,      \* "none" while _storage is None, "ready" once constructed
  seen_ids,     \* JobStorage.seen_ids
  pc,           \* position of the call in progress, "idle" between calls
  op,           \* the call in progress: "find_new", "add", "stats", "none"
  jobs,         \* find_new_jobs: the argument
  job_ids,      \* add_seen_ids: the argument
  new_jobs,     \* find_new_jobs: the local new_jobs
  stats_total,  \* get_stats: total_jobs_seen
  error,        \* the exception leaving the call, "none" if none
  \* --- history of the call in progress and of the process
  seenBefore,   \* seen_ids when the call started (after construction)
  fileBefore,   \* the file when the call started
  fresh,        \* the call constructed the store (load_seen_ids ran)
  saveOutcome,  \* "none", "ok", "open_failed", "dump_failed"
  repeat,       \* find_new_jobs: how the call relates to the one in `last`
  failed_ids,   \* ids added in this process whose write failed and that no
                \* returned call has written since
  last,         \* the last find_new_jobs call that returned in this process
  \* --- tracker.py: the adapters and the aggregator
  companies,    \* JobTracker.companies, as the list of its values
  responses,    \* what the HTTP call to each source yields in this cycle
  all_jobs,     \* the return value of get_jobs
  tracker_pc,   \* "idle", then "returned" or "raised" once get_jobs is over
  fetched       \* the outcome of an adapter called on its own

classifierVars == <<location, include, classified>>
callVars == <<op, jobs, job_ids, new_jobs, stats_total, error,
              seenBefore, fileBefore, fresh, saveOutcome, repeat>>
storeVars == <<file, storage, seen_ids, pc, callVars, failed_ids, last>>
trackerVars == <<companies, responses, all_jobs, tracker_pc, fetched>>
vars == <<classifierVars, storeVars, trackerVars>>

----------------------------------------------------------------------------
(* Bounds *)

\* number of tokens concatenated to build a classifier input
MaxTokens == 2
\* number of distinct posting ids
NumIds == 2
\* longest batch handed to find_new_jobs / add_seen_ids
MaxBatch == 2
\* number of configured sources
NumCompanies == 2
\* most items in one upstream response
MaxItems == 2

----------------------------------------------------------------------------
(* Strings *)

UpperCase == <<"A","B","C","D","E","F","G","H","I","J","K","L","M","N","O","P","Q","R","S","T","U","V","W","X","Y","Z">>
LowerCase == <<"a","b","c","d","e","f","g","h","i","j","k","l","m","n","o","p","q","r","s","t","u","v","w","x","y","z">>

\* str.lower() on one character (ASCII letters; the other characters used
\* here have no lower-case form)
LowerChar(c) ==
  IF \E i \in 1..Len(UpperCase) : UpperCase[i] = c
  THEN LowerCase[CHOOSE i \in 1..Len(UpperCase) : UpperCase[i] = c]
  ELSE c

\* str.lower()
Lower(s) == [i \in 1..Len(s) |-> LowerChar(s[i])]

\* Python `needle in hay` on strings
StrIn(needle, hay) ==
  \E i \in 0..(Len(hay) - Len(needle)) :
     \A j \in 1..Len(needle) : hay[i + j] = needle[j]

\* an optional string: None, or a string
None == [some |-> FALSE, text |-> <<>>]
Some(s) == [some |-> TRUE, text |-> s]

----------------------------------------------------------------------------
(* Location classifier: JobTracker.is_us_location *)

us_indicators ==
  << <<"u","n","i","t","e","d"," ","s","t","a","t","e","s">>,
     <<"u","s","a">>,
     <<"u",".","s",".">>,
     <<"u","s"," ">>,
     <<"r","e","m","o","t","e">>,
     <<"r","e","m","o","t","e"," ","u","s">>,
     <<"r","e","m","o","t","e"," ","-"," ","u","s">>,
     <<"c","a","l","i","f","o","r","n","i","a">>,
     <<"c","a">>,
     <<"s","a","n"," ","f","r","a","n","c","i","s","c","o">>,
     <<"s","f">>,
     <<"b","a","y"," ","a","r","e","a">>,
     <<"n","e","w"," ","y","o","r","k">>,
     <<"n","y">>,
     <<"n","y","c">>,
     <<"m","a","n","h","a","t","t","a","n">>,
     <<"w","a","s","h","i","n","g","t","o","n">>,
     <<"s","e","a","t","t","l","e">>,
     <<"w","a">>,
     <<"t","e","x","a","s">>,
     <<"t","x">>,
     <<"a","u","s","t","i","n">>,
     <<"d","a","l","l","a","s">>,
     <<"c","o","l","o","r","a","d","o">>,
     <<"c","o">>,
     <<"d","e","n","v","e","r">>,
     <<"m","a","s","s","a","c","h","u","s","e","t","t","s">>,
     <<"m","a">>,
     <<"b","o","s","t","o","n">>,
     <<"i","l","l","i","n","o","i","s">>,
     <<"i","l">>,
     <<"c","h","i","c","a","g","o">>,
     <<"f","l","o","r","i","d","a">>,
     <<"f","l">>,
     <<"m","i","a","m","i">>,
     <<"o","r","e","g","o","n">>,
     <<"o","r">>,
     <<"p","o","r","t","l","a","n","d">>,
     <<"g","e","o","r","g","i","a">>,
     <<"g","a">>,
     <<"a","t","l","a","n","t","a">> >>

non_us_indicators ==
  << <<"l","o","n","d","o","n">>,
     <<"u","k">>,
     <<"u","n","i","t","e","d"," ","k","i","n","g","d","o","m">>,
     <<"e","n","g","l","a","n","d">>,
     <<"c","a","n","a","d","a">>,
     <<"t","o","r","o","n","t","o">>,
     <<"v","a","n","c","o","u","v","e","r">>,
     <<"e","u","r","o","p","e">>,
     <<"e","m","e","a">>,
     <<"a","p","a","c">>,
     <<"a","s","i","a">>,
     <<"i","n","d","i","a">>,
     <<"b","a","n","g","a","l","o","r","e">>,
     <<"m","u","m","b","a","i">>,
     <<"s","i","n","g","a","p","o","r","e">>,
     <<"a","u","s","t","r","a","l","i","a">>,
     <<"s","y","d","n","e","y">>,
     <<"g","e","r","m","a","n","y">>,
     <<"b","e","r","l","i","n">>,
     <<"f","r","a","n","c","e">>,
     <<"p","a","r","i","s">> >>

\* `for indicator in indicators: if indicator in location_lower: return ...`
\* scanned from index k; TRUE iff the loop returns from its body
RECURSIVE AnyIndicatorFrom(_, _, _)
AnyIndicatorFrom(indicators, k, location_lower) ==
  IF k > Len(indicators) THEN FALSE
  ELSE IF StrIn(indicators[k], location_lower) THEN TRUE
  ELSE AnyIndicatorFrom(indicators, k + 1, location_lower)

\* the two loops in the other order: US indicators first
is_us_location_UsFirst(loc) ==
  IF ~loc.some \/ loc.text = <<>> THEN TRUE
  ELSE LET location_lower == Lower(loc.text) IN
       IF AnyIndicatorFrom(us_indicators, 1, location_lower) THEN TRUE
       ELSE FALSE

is_us_location(loc) ==
  IF ~loc.some \/ loc.text = <<>> THEN TRUE
  ELSE LET location_lower == Lower(loc.text) IN
       IF AnyIndicatorFrom(non_us_indicators, 1, location_lower) THEN FALSE
       ELSE IF AnyIndicatorFrom(us_indicators, 1, location_lower) THEN TRUE
       ELSE FALSE

\* pieces of location text the classifier inputs are built from
Tokens ==
  << <<"S","a","n"," ","F","r","a","n","c","i","s","c","o">>,
     <<","," ","C","A">>,
     <<"L","o","n","d","o","n">>,
     <<","," ","U","K">>,
     <<"M","a","r","s"," ">>,
     <<"C","o","l","o","n","y">>,
     <<"T","o","k","y","o">>,
     <<"R","e","m","o","t","e">>,
     <<"A","u","s","t","i","n",","," ","T","X">>,
     <<" ","-"," ","E","M","E","A">>,
     <<"L","a","g","o","s">>,
     <<"O","s","l","o">> >>

RECURSIVE Concat(_)
Concat(ts) == IF ts = <<>> THEN <<>> ELSE Head(ts) \o Concat(Tail(ts))

TokenSeqs == UNION { [1..n -> 1..Len(Tokens)] : n \in 0..MaxTokens }

LocationInputs ==
  {None} \cup { Some(Concat([i \in DOMAIN ts |-> Tokens[ts[i]]])) : ts \in TokenSeqs }

ClassifierRest ==
  /\ location = None
  /\ include = FALSE
  /\ classified = FALSE

ClassifierInit ==
  /\ location \in LocationInputs
  /\ include = FALSE
  /\ classified = FALSE

Classify ==
  /\ ~classified
  /\ include' = is_us_location(location)
  /\ classified' = TRUE
  /\ UNCHANGED location
  /\ UNCHANGED <<storeVars, trackerVars>>

----------------------------------------------------------------------------
(* Seen-set store and dedup filter: storage.py *)

Range(s) == { s[i] : i \in DOMAIN s }

IdNames == << "job1", "job2", "job3", "job4" >>
Ids == { IdNames[i] : i \in 1..NumIds }

\* a posting whose 'id' is missing, None or empty: job.get('id') is falsy
NoId == ""

\* storage.py reads nothing of a posting but its 'id'
Postings == [id : Ids \cup {NoId}]
Batches == UNION { [1..n -> Postings] : n \in 0..MaxBatch }
IdLists == UNION { [1..n -> Ids] : n \in 0..MaxBatch }

\* list(a_set): the elements once each, in an order the code does not choose
ListsOf(S) == { s \in [1..Cardinality(S) -> S] : Range(s) = S }

(* Contents of the storage file.  kind: "absent" (no such path),           *)
(* "unreadable" (exists, open() raises IOError), "notjson" (not a JSON     *)
(* text: empty, truncated, garbage), "array" / "scalar" (a JSON text that  *)
(* is no object), "object".  For an object, field says what 'seen_ids'     *)
(* holds: "missing", "list" (of strings, in ids), "string" (its characters *)
(* in ids), "number", "null", "nested" (a list holding a list).            *)
FileOf(k, f, l) == [kind |-> k, field |-> f, ids |-> l]
FileAbsent == FileOf("absent", "none", <<>>)
FileNotJson == FileOf("notjson", "none", <<>>)
FileList(l) == FileOf("object", "list", l)

WellFormedFiles == { FileList(l) : l \in UNION { ListsOf(S) : S \in SUBSET Ids } }

MalformedFiles ==
  { FileOf("unreadable", "none", <<>>), FileNotJson,
    FileOf("array", "none", <<>>), FileOf("scalar", "none", <<>>),
    FileOf("object", "missing", <<>>), FileOf("object", "string", <<"x">>),
    FileOf("object", "number", <<>>), FileOf("object", "null", <<>>),
    FileOf("object", "nested", <<>>) }

InitialFiles == {FileAbsent} \cup WellFormedFiles \cup MalformedFiles

Loaded(S) == [raised |-> "none", set |-> S]
LoadRaises(e) == [raised |-> e, set |-> {}]

\* JobStorage.load_seen_ids: the set returned, or the exception that leaves it
load_seen_ids(f) ==
  IF f.kind = "absent" THEN Loaded({})
  ELSE IF f.kind \in {"unreadable", "notjson"} THEN Loaded({})
  ELSE IF f.kind \in {"array", "scalar"} THEN LoadRaises("AttributeError")
  ELSE IF f.field = "missing" THEN Loaded({})
  ELSE IF f.field \in {"list", "string"} THEN Loaded(Range(f.ids))
  ELSE LoadRaises("TypeError")

\* get_storage: the store already constructed, or JobStorage() now
get_storage ==
  IF storage = "ready" THEN Loaded(seen_ids) ELSE load_seen_ids(file)

\* the loop of find_new_jobs over jobs[k..], appending to acc
RECURSIVE NewJobsFrom(_, _, _, _)
NewJobsFrom(batch, k, seen, acc) ==
  IF k > Len(batch) THEN acc
  ELSE IF batch[k].id = NoId THEN NewJobsFrom(batch, k + 1, seen, acc)
  ELSE IF batch[k].id \notin seen
       THEN NewJobsFrom(batch, k + 1, seen, Append(acc, batch[k]))
       ELSE NewJobsFrom(batch, k + 1, seen, acc)

\* the loop without its `if not job_id: continue`
NewJobs_KeepsIdLess(batch, seen) ==
  SelectSeq(batch, LAMBDA j : j.id \notin seen)

NewJobs(batch, seen) == NewJobsFrom(batch, 1, seen, <<>>)

\* new_ids: the ids of new_jobs, in order
IdsOf(postings) == [i \in DOMAIN postings |-> postings[i].id]

\* an update that stops after the first id
MergeIds_FirstOnly(seen, ids) ==
  IF ids = <<>> THEN seen ELSE seen \cup {ids[1]}

\* an assignment in place of the update
MergeIds_Replace(seen, ids) == Range(ids)

\* self.seen_ids.update(job_ids)
MergeIds(seen, ids) == seen \cup Range(ids)

\* `>=` in place of `>`
NeedsSave_Always(before_count, after_count) == after_count >= before_count

\* `if after_count > before_count`
NeedsSave(before_count, after_count) == after_count > before_count

\* json.dump({'seen_ids': list(self.seen_ids)}, f): what a completed write
\* leaves in the file
DumpedFiles(seen) == { FileList(l) : l \in ListsOf(seen) }

\* a handler that raises again after logging
AfterSaveError_Reraise == "raise"

\* `except IOError as e: logger.error(...)`: where save_seen_ids goes on
\* after a failed write
AfterSaveError == "return"

\* len(storage.seen_ids)
TotalJobsSeen(seen) == Cardinality(seen)

\* last: the batch of the find_new_jobs call that returned last in this
\* process with no other call since, whether it returned a posting (found) and whether a posting of
\* it had an id outside seen_ids when it started (unseen)
NoLast == [valid |-> FALSE, jobs |-> <<>>, found |-> FALSE, unseen |-> FALSE]
\* repeat: the call in progress has the batch of `last` (same), and the
\* found and unseen of that earlier call
NoRepeat == [same |-> FALSE, found |-> FALSE, unseen |-> FALSE]

CallRest ==
  /\ op = "none"
  /\ jobs = <<>>
  /\ job_ids = <<>>
  /\ new_jobs = <<>>
  /\ stats_total = 0
  /\ error = "none"
  /\ seenBefore = {}
  /\ fileBefore = FileAbsent
  /\ fresh = FALSE
  /\ saveOutcome = "none"
  /\ repeat = NoRepeat

StoreRest ==
  /\ storage = "none"
  /\ seen_ids = {}
  /\ pc = "idle"
  /\ CallRest
  /\ failed_ids = {}
  /\ last = NoLast

StoreInit ==
  /\ file \in InitialFiles
  /\ StoreRest

\* entry of a call made through get_storage()
Enter(o, st) ==
  /\ op' = o
  /\ error' = st.raised
  /\ fresh' = (storage = "none")
  /\ fileBefore' = file
  /\ seenBefore' = st.set
  /\ saveOutcome' = "none"
  /\ storage' = IF st.raised = "none" THEN "ready" ELSE storage
  /\ UNCHANGED <<file, failed_ids>>
  /\ UNCHANGED <<classifierVars, trackerVars>>

\* add_seen_ids(ids) on a store holding seen: merge, then save if it grew
AddSeenIds(seen, ids) ==
  /\ seen_ids' = MergeIds(seen, ids)
  /\ pc' = IF NeedsSave(Cardinality(seen), Cardinality(seen_ids'))
           THEN "save_open" ELSE "return"

\* storage.find_new_jobs(batch): partition, then add_seen_ids(new_ids)
find_new_jobs(batch) ==
  /\ pc = "idle"
  /\ LET st == get_storage IN
     /\ Enter("find_new", st)
     /\ jobs' = batch
     /\ repeat' = [same |-> last.valid /\ last.jobs = batch,
                   found |-> last.found, unseen |-> last.unseen]
     /\ last' = NoLast
     /\ UNCHANGED <<job_ids, stats_total>>
     /\ IF st.raised # "none"
        THEN /\ pc' = "raise"
             /\ new_jobs' = <<>>
             /\ UNCHANGED seen_ids
        ELSE /\ new_jobs' = NewJobs(batch, st.set)
             /\ IF IdsOf(new_jobs') # <<>>
                THEN AddSeenIds(st.set, IdsOf(new_jobs'))
                ELSE /\ seen_ids' = st.set
                     /\ pc' = "return"

\* get_storage().add_seen_ids(ids)
add_seen_ids(ids) ==
  /\ pc = "idle"
  /\ LET st == get_storage IN
     /\ Enter("add", st)
     /\ job_ids' = ids
     /\ last' = NoLast
     /\ UNCHANGED <<jobs, new_jobs, stats_total, repeat>>
     /\ IF st.raised # "none"
        THEN /\ pc' = "raise"
             /\ UNCHANGED seen_ids
        ELSE AddSeenIds(st.set, ids)

\* main.get_stats
get_stats ==
  /\ pc = "idle"
  /\ LET st == get_storage IN
     /\ Enter("stats", st)
     /\ last' = NoLast
     /\ UNCHANGED <<jobs, job_ids, new_jobs, repeat>>
     /\ IF st.raised # "none"
        THEN /\ pc' = "raise"
             /\ UNCHANGED <<seen_ids, stats_total>>
        ELSE /\ seen_ids' = st.set
             /\ stats_total' = TotalJobsSeen(st.set)
             /\ pc' = "return"

\* save_seen_ids: open(self.storage_file, 'w') creates or truncates the file
SaveOpen ==
  /\ pc = "save_open"
  /\ file' = FileNotJson
  /\ pc' = "save_dump"
  /\ UNCHANGED <<storage, seen_ids, callVars, failed_ids, last>>
  /\ UNCHANGED <<classifierVars, trackerVars>>

\* save_seen_ids: open() raises IOError; the file is as it was
SaveOpenFails ==
  /\ pc = "save_open"
  /\ saveOutcome' = "open_failed"
  /\ failed_ids' = failed_ids \cup (seen_ids \ seenBefore)
  /\ pc' = AfterSaveError
  /\ error' = IF AfterSaveError = "raise" THEN "IOError" ELSE error
  /\ UNCHANGED <<file, storage, seen_ids, last,
                 op, jobs, job_ids, new_jobs, stats_total, seenBefore,
                 fileBefore, fresh, repeat>>
  /\ UNCHANGED <<classifierVars, trackerVars>>

\* save_seen_ids: json.dump and the close of the file complete
SaveDump ==
  /\ pc = "save_dump"
  /\ file' \in DumpedFiles(seen_ids)
  /\ saveOutcome' = "ok"
  /\ pc' = "return"
  /\ UNCHANGED <<storage, seen_ids, failed_ids, last,
                 op, jobs, job_ids, new_jobs, stats_total, error, seenBefore,
                 fileBefore, fresh, repeat>>
  /\ UNCHANGED <<classifierVars, trackerVars>>

\* save_seen_ids: the write or the close raises IOError; the file stays cut
SaveDumpFails ==
  /\ pc = "save_dump"
  /\ saveOutcome' = "dump_failed"
  /\ failed_ids' = failed_ids \cup (seen_ids \ seenBefore)
  /\ pc' = AfterSaveError
  /\ error' = IF AfterSaveError = "raise" THEN "IOError" ELSE error
  /\ UNCHANGED <<file, storage, seen_ids, last,
                 op, jobs, job_ids, new_jobs, stats_total, seenBefore,
                 fileBefore, fresh, repeat>>
  /\ UNCHANGED <<classifierVars, trackerVars>>

ResetCall ==
  /\ op' = "none"
  /\ jobs' = <<>>
  /\ job_ids' = <<>>
  /\ new_jobs' = <<>>
  /\ stats_total' = 0
  /\ error' = "none"
  /\ seenBefore' = {}
  /\ fileBefore' = FileAbsent
  /\ fresh' = FALSE
  /\ saveOutcome' = "none"
  /\ repeat' = NoRepeat

\* the call returns to its caller
Return ==
  /\ pc = "return"
  /\ pc' = "idle"
  /\ last' = IF op = "find_new"
             THEN [valid |-> TRUE, jobs |-> jobs, found |-> new_jobs # <<>>,
                   unseen |-> \E i \in DOMAIN jobs :
                                 jobs[i].id # NoId /\ jobs[i].id \notin seenBefore]
             ELSE last
  /\ failed_ids' = IF saveOutcome = "ok" THEN {} ELSE failed_ids
  /\ ResetCall
  /\ UNCHANGED <<file, storage, seen_ids>>
  /\ UNCHANGED <<classifierVars, trackerVars>>

\* an exception leaves the call
Raise ==
  /\ pc = "raise"
  /\ pc' = "idle"
  /\ ResetCall
  /\ UNCHANGED <<file, storage, seen_ids, failed_ids, last>>
  /\ UNCHANGED <<classifierVars, trackerVars>>

\* the process dies, at any point, and a new one starts: memory is lost,
\* the file stays as it is
Crash ==
  /\ storage = "ready" \/ pc # "idle"
  /\ storage' = "none"
  /\ seen_ids' = {}
  /\ pc' = "idle"
  /\ failed_ids' = {}
  /\ last' = NoLast
  /\ ResetCall
  /\ UNCHANGED file
  /\ UNCHANGED <<classifierVars, trackerVars>>

FindNew == \E batch \in Batches : find_new_jobs(batch)
AddAll == \E ids \in IdLists : add_seen_ids(ids)

StoreNext ==
  \/ FindNew
  \/ AddAll
  \/ get_stats
  \/ SaveOpen
  \/ SaveOpenFails
  \/ SaveDump
  \/ SaveDumpFails
  \/ Return
  \/ Raise
  \/ Crash

----------------------------------------------------------------------------
(* Properties of the seen-set store and the dedup filter *)

\* the ids a process started now would load; none if loading fails
Persisted(f) == load_seen_ids(f).set

\* a batch in which every posting has an id and no two share one
UniqueIds(batch) ==
  /\ \A i \in DOMAIN batch : batch[i].id # NoId
  /\ \A i, j \in DOMAIN batch : i # j => batch[i].id # batch[j].id

\* the call is past its entry and no exception is leaving it
InCall == pc \in {"save_open", "save_dump", "return"}

\* a find_new_jobs call about to return, right after a find_new_jobs call on
\* the identical non-empty batch of postings with unique ids
SecondOfTwo ==
  /\ pc = "return" /\ op = "find_new"
  /\ repeat.same /\ jobs # <<>> /\ UniqueIds(jobs)

\* C1 as stated: find_new twice in succession on the identical non-empty
\* batch with unique ids returns a non-empty result the first time and an
\* empty result the second time.
C1_FirstNonEmptySecondEmpty ==
  SecondOfTwo => (repeat.found /\ new_jobs = <<>>)

\* C1 amended: the second of the two calls returns an empty result; the
\* first returns a non-empty result exactly when at least one id of the
\* batch was not in the seen set when it started.
C1_SecondEmpty ==
  SecondOfTwo => (new_jobs = <<>> /\ (repeat.found <=> repeat.unseen))

C1_Witness ==
  SecondOfTwo /\ repeat.found /\ Len(jobs) = 2 /\ new_jobs = <<>>

\* C2: find_new returns exactly the postings of the batch that carry an id
\* not in the seen set when the call started, in the order of the batch;
\* the remaining id-bearing postings are the already-seen ones, and an
\* id-less posting is in neither part.
C2_ReturnsExactlyTheUnseen ==
  (op = "find_new" /\ InCall) =>
     LET isNew(j) == j.id # NoId /\ j.id \notin seenBefore
         isOld(j) == j.id # NoId /\ j.id \in seenBefore
     IN /\ new_jobs = SelectSeq(jobs, isNew)
        /\ \A i \in DOMAIN new_jobs :
              new_jobs[i].id # NoId /\ new_jobs[i].id \notin seenBefore
        /\ Len(new_jobs) + Len(SelectSeq(jobs, isOld))
              = Cardinality({ i \in DOMAIN jobs : jobs[i].id # NoId })

C2_Witness ==
  /\ op = "find_new" /\ pc = "return"
  /\ Len(jobs) = 2 /\ Len(new_jobs) = 1
  /\ jobs[1].id \in seenBefore /\ jobs[2].id \notin seenBefore \cup {NoId}

\* C3: at every point of a find_new call (so wherever a crash may stop it)
\* the persisted seen set is the set persisted before the call, or that set
\* plus the ids of all new postings of the batch.
C3_CrashLeavesAllOrNothing ==
  (op = "find_new" /\ InCall) =>
     \/ Persisted(file) = Persisted(fileBefore)
     \/ Persisted(file) = Persisted(fileBefore) \cup Range(IdsOf(new_jobs))

\* the persisted form is absent or is not an object whose 'seen_ids' is a
\* list of strings
AbsentOrMalformed(f) == ~(f.kind = "object" /\ f.field = "list")

\* C4: loading the seen set at store construction never fails, whatever the
\* file holds, and yields the empty set when the persisted form is absent
\* or malformed.
C4_LoadNeverFails ==
  (fresh /\ pc # "idle") =>
     /\ error = "none"
     /\ pc # "raise"
     /\ AbsentOrMalformed(fileBefore) => seenBefore = {}

\* C8: add_all goes on to write the file (calls save_seen_ids) if and only
\* if the call made the in-memory set larger; when the write succeeds the
\* file holds exactly the in-memory set, once each, and a store constructed
\* from it loads that set; when no id was new the file is not touched.
C8_WritesIffGrewAndWritesAll ==
  (pc = "return" /\ op \in {"find_new", "add"}) =>
     /\ (saveOutcome # "none") <=> (Cardinality(seen_ids) > Cardinality(seenBefore))
     /\ saveOutcome = "none" => file = fileBefore
     /\ saveOutcome = "ok" =>
           /\ file.kind = "object" /\ file.field = "list"
           /\ Range(file.ids) = seen_ids
           /\ Len(file.ids) = Cardinality(seen_ids)
           /\ load_seen_ids(file) = Loaded(seen_ids)

C8_Witness ==
  /\ pc = "return" /\ op = "add"
  /\ saveOutcome = "ok"
  /\ seenBefore # {} /\ seenBefore # seen_ids
  /\ fileBefore # file

\* the ids of the postings a call started by this step will return as new
ReturnedAsNew == IF op' = "find_new" THEN Range(IdsOf(new_jobs')) ELSE {}

\* the ids this step hands to add_all directly
HandedToAddAll == IF op' = "add" THEN Range(job_ids') ELSE {}

\* a step of a live process that starts a call
StartsCall == pc = "idle" /\ pc' \in {"save_open", "return"}

\* C9 as stated: within a process the in-memory set only grows, by exactly
\* the ids of the postings returned as new, from the set loaded at
\* initialization on; stats reports its size.
C9_GrowsByReturnedNewOnly ==
  [][ /\ StartsCall =>
           /\ storage = "ready" => seenBefore' = seen_ids
           /\ seen_ids' = seenBefore' \cup ReturnedAsNew
      /\ (~StartsCall /\ storage' = "ready") => seen_ids' = seen_ids
      /\ (pc' = "return" /\ op' = "stats") => stats_total' = Cardinality(seen_ids')
    ]_vars

\* C9 amended: within a process the in-memory set only grows, by exactly
\* the ids of the postings returned as new and the ids handed to add_all
\* directly, from the set loaded at initialization on; stats reports its
\* size.
C9_GrowsByReturnedNewAndAdded ==
  [][ /\ StartsCall =>
           /\ storage = "ready" => seenBefore' = seen_ids
           /\ seen_ids' = seenBefore' \cup ReturnedAsNew \cup HandedToAddAll
      /\ (~StartsCall /\ storage' = "ready") => seen_ids' = seen_ids
      /\ (pc' = "return" /\ op' = "stats") => stats_total' = Cardinality(seen_ids')
    ]_vars

C9_Witness ==
  /\ pc = "return" /\ op = "find_new"
  /\ fresh /\ seenBefore = {}
  /\ jobs = << [id |-> "job1"], [id |-> "job2"] >>
  /\ new_jobs = jobs
  /\ seen_ids = {"job1", "job2"}

\* C10: a failed write of the seen-set file is swallowed: the call goes on
\* to return (find_new its new postings), the in-memory set holds the ids,
\* so that a later find_new of the process does not return them again, the
\* write is not tried again, and the next successful write puts the whole
\* in-memory set in the file, the ids of the failed writes included.
C10_WriteFailureIsSwallowed ==
  /\ saveOutcome \in {"open_failed", "dump_failed"} =>
        /\ pc = "return" /\ error = "none"
        /\ Range(IdsOf(new_jobs)) \cup Range(job_ids) \subseteq seen_ids
        /\ seen_ids \ seenBefore \subseteq failed_ids
        /\ op = "find_new" =>
              /\ new_jobs # <<>>
              /\ new_jobs = SelectSeq(jobs, LAMBDA j : j.id # NoId /\ j.id \notin seenBefore)
  /\ (op = "find_new" /\ InCall /\ saveOutcome = "none") =>
        Range(IdsOf(new_jobs)) \cap failed_ids = {}
  /\ failed_ids \subseteq seen_ids
  /\ (pc = "return" /\ saveOutcome = "ok") =>
        /\ failed_ids \subseteq Range(file.ids)
        /\ Range(file.ids) = seen_ids

C10_Witness ==
  /\ pc = "return" /\ op = "find_new"
  /\ saveOutcome = "ok"
  /\ failed_ids # {}
  /\ failed_ids \cap Range(IdsOf(new_jobs)) = {}

----------------------------------------------------------------------------
(* Source adapters and aggregator: tracker.py *)

\* the ids of JobTracker.companies, in the order of the dict
CompanyIds ==
  << "airbnb", "stripe", "dropbox", "coinbase", "robinhood", "doordash",
     "instacart", "discord", "ramp", "plaid", "notion", "figma", "airtable",
     "databricks" >>

\* config['type']: the two kinds get_jobs dispatches on, and one it does not
\* know.  The dict in __init__ holds "greenhouse" entries only.
Kinds == {"greenhouse", "lever", "workday"}

\* the first NumCompanies entries of a configuration
Configs ==
  { [k \in 1..NumCompanies |-> [type |-> t[k], id |-> CompanyIds[k]]] :
      t \in [1..NumCompanies -> Kinds] }

\* an upstream item without an 'id' key
MissingKey == "<no id key>"
NativeIds == {"4001"}

Remote == <<"R","e","m","o","t","e">>
AustinTX == <<"A","u","s","t","i","n",","," ","T","X">>
LondonUK == <<"L","o","n","d","o","n",","," ","U","K">>

\* the location an upstream item carries: none, one in the US, one outside
ItemLocations == { None, Some(AustinTX), Some(LondonUK) }

\* what the adapters read of an upstream item: job['id'] and the location
\* (job['location']['name'] for Greenhouse, job['categories']['location']
\* for Lever)
Items == [id : NativeIds \cup {MissingKey}, location : ItemLocations]

\* the outcome of one requests.get: a RequestException (fails), or the items
\* of the decoded body
Responses ==
  { [fails |-> TRUE, items |-> <<>>] } \cup
  { [fails |-> FALSE, items |-> its] :
      its \in UNION { [1..n -> Items] : n \in 0..MaxItems } }

Fetched(js) == [raised |-> "none", jobs |-> js]
FetchRaises(e) == [raised |-> e, jobs |-> <<>>]

\* .get(..., 'Remote')
LocationOrRemote(item) ==
  IF item.location.some THEN item.location.text ELSE Remote

\* of the normalized posting: 'id', 'location' and 'source'
Posting(prefix, source_id, item, src) ==
  [id |-> <<prefix, source_id, item.id>>,
   location |-> LocationOrRemote(item),
   source |-> src]

\* the loop of fetch_greenhouse_jobs over items[k..]; job['id'] raises
\* KeyError, which `except requests.RequestException` does not catch
RECURSIVE GreenhouseLoop(_, _, _, _)
GreenhouseLoop(board_id, items, k, acc) ==
  IF k > Len(items) THEN Fetched(acc)
  ELSE IF ~is_us_location(Some(LocationOrRemote(items[k])))
       THEN GreenhouseLoop(board_id, items, k + 1, acc)
  ELSE IF items[k].id = MissingKey THEN FetchRaises("KeyError")
  ELSE GreenhouseLoop(board_id, items, k + 1,
                      Append(acc, Posting("gh", board_id, items[k], "greenhouse")))

fetch_greenhouse_jobs(board_id, response) ==
  IF response.fails THEN Fetched(<<>>)
  ELSE GreenhouseLoop(board_id, response.items, 1, <<>>)

\* the loop of fetch_lever_jobs over items[k..]: no location filter
RECURSIVE LeverLoop(_, _, _, _)
LeverLoop(company_id, items, k, acc) ==
  IF k > Len(items) THEN Fetched(acc)
  ELSE IF items[k].id = MissingKey THEN FetchRaises("KeyError")
  ELSE LeverLoop(company_id, items, k + 1,
                 Append(acc, Posting("lv", company_id, items[k], "lever")))

fetch_lever_jobs(company_id, response) ==
  IF response.fails THEN Fetched(<<>>)
  ELSE LeverLoop(company_id, response.items, 1, <<>>)

\* the loop of get_jobs over companies[k..]; an exception leaving an adapter
\* leaves get_jobs
RECURSIVE GetJobsLoop(_, _, _, _)
GetJobsLoop(cfgs, resps, k, acc) ==
  IF k > Len(cfgs) THEN Fetched(acc)
  ELSE IF cfgs[k].type \notin {"greenhouse", "lever"}
       THEN GetJobsLoop(cfgs, resps, k + 1, acc)
  ELSE LET r == IF cfgs[k].type = "greenhouse"
                THEN fetch_greenhouse_jobs(cfgs[k].id, resps[k])
                ELSE fetch_lever_jobs(cfgs[k].id, resps[k])
       IN IF r.raised # "none" THEN FetchRaises(r.raised)
          ELSE GetJobsLoop(cfgs, resps, k + 1, acc \o r.jobs)

NotFetched == [adapter |-> "none", k |-> 0, raised |-> "none", jobs |-> <<>>]

TrackerRest ==
  /\ companies = <<>>
  /\ responses = <<>>
  /\ all_jobs = <<>>
  /\ tracker_pc = "idle"
  /\ fetched = NotFetched

TrackerInit ==
  /\ companies \in Configs
  /\ responses \in [1..NumCompanies -> Responses]
  /\ all_jobs = <<>>
  /\ tracker_pc = "idle"
  /\ fetched = NotFetched

\* JobTracker.get_jobs
get_jobs ==
  /\ tracker_pc = "idle"
  /\ fetched = NotFetched
  /\ LET r == GetJobsLoop(companies, responses, 1, <<>>) IN
     /\ all_jobs' = r.jobs
     /\ tracker_pc' = IF r.raised = "none" THEN "returned" ELSE "raised"
  /\ UNCHANGED <<companies, responses, fetched>>
  /\ UNCHANGED <<classifierVars, storeVars>>

\* JobTracker.fetch_greenhouse_jobs on the k-th source
FetchGreenhouse(k) ==
  /\ tracker_pc = "idle"
  /\ fetched = NotFetched
  /\ LET r == fetch_greenhouse_jobs(companies[k].id, responses[k]) IN
     fetched' = [adapter |-> "greenhouse", k |-> k,
                 raised |-> r.raised, jobs |-> r.jobs]
  /\ UNCHANGED <<companies, responses, all_jobs, tracker_pc>>
  /\ UNCHANGED <<classifierVars, storeVars>>

\* JobTracker.fetch_lever_jobs on the k-th source
FetchLever(k) ==
  /\ tracker_pc = "idle"
  /\ fetched = NotFetched
  /\ LET r == fetch_lever_jobs(companies[k].id, responses[k]) IN
     fetched' = [adapter |-> "lever", k |-> k,
                 raised |-> r.raised, jobs |-> r.jobs]
  /\ UNCHANGED <<companies, responses, all_jobs, tracker_pc>>
  /\ UNCHANGED <<classifierVars, storeVars>>

FetchGreenhouseAny == \E k \in 1..NumCompanies : FetchGreenhouse(k)
FetchLeverAny == \E k \in 1..NumCompanies : FetchLever(k)

TrackerNext ==
  \/ get_jobs
  \/ FetchGreenhouseAny
  \/ FetchLeverAny

----------------------------------------------------------------------------
(* Properties of the adapters and the aggregator *)

\* the items of a response that carry an id
WithId(items) == SelectSeq(items, LAMBDA it : it.id # MissingKey)

\* the items an adapter keeps: Greenhouse drops the locations outside the US
\* (of the locations used here only LondonUK is one), Lever drops none
Kept(adapter, items) ==
  IF adapter = "greenhouse"
  THEN SelectSeq(items, LAMBDA it : it.location # Some(LondonUK))
  ELSE items

\* the postings an adapter owes for a response once id-less items are skipped
Owed(adapter, source_id, response) ==
  IF response.fails THEN <<>>
  ELSE LET its == WithId(Kept(adapter, response.items)) IN
       [i \in DOMAIN its |->
          [id |-> <<IF adapter = "greenhouse" THEN "gh" ELSE "lv",
                    source_id, its[i].id>>,
           location |-> IF its[i].location.some
                        THEN its[i].location.text ELSE Remote,
           source |-> adapter]]

\* C5: an adapter skips an upstream item without a native id and still
\* returns the postings of the other items of the response; no exception
\* leaves the adapter, nor the aggregator.
C5_ItemWithoutIdIsSkipped ==
  /\ fetched.adapter # "none" =>
        /\ fetched.raised = "none"
        /\ fetched.jobs =
             Owed(fetched.adapter, companies[fetched.k].id, responses[fetched.k])
  /\ tracker_pc # "raised"

RECURSIVE OwedFrom(_)
\* what sources k.. owe the aggregate: nothing for a failed call or an
\* unknown kind, all its postings for any other source
OwedFrom(k) ==
  IF k > Len(companies) THEN <<>>
  ELSE (IF companies[k].type \in {"greenhouse", "lever"}
        THEN Owed(companies[k].type, companies[k].id, responses[k])
        ELSE <<>>) \o OwedFrom(k + 1)

\* C6: get_jobs never raises; a source whose call fails or whose kind is
\* unknown contributes nothing, every other source all its postings, and
\* the result is the per-source results in configuration order.
C6_AggregatorNeverRaises ==
  tracker_pc # "idle" =>
     /\ tracker_pc = "returned"
     /\ all_jobs = OwedFrom(1)

----------------------------------------------------------------------------
(* Properties of the location classifier *)

SanFranciscoCA == <<"S","a","n"," ","F","r","a","n","c","i","s","c","o",","," ","C","A">>
MarsColony == <<"M","a","r","s"," ","C","o","l","o","n","y">>

\* some indicator of the list is a substring of the lower-cased text
Matches(indicators, text) ==
  \E k \in DOMAIN indicators : StrIn(indicators[k], Lower(text))

\* the decision the rules give, in their order: absent or empty -> include;
\* a non-US indicator -> exclude; else a US indicator -> include; else exclude
RuleDecision(loc) ==
  \/ ~loc.some
  \/ loc.text = <<>>
  \/ (~Matches(non_us_indicators, loc.text) /\ Matches(us_indicators, loc.text))

\* C7 as stated: the classifier decides by the rules in their order, and
\* "San Francisco, CA" -> include, "London, UK" -> exclude, "" or absent ->
\* include, "Mars Colony" -> exclude.
C7_RulesAndLiterals ==
  classified =>
     /\ include = RuleDecision(location)
     /\ location = Some(SanFranciscoCA) => include
     /\ location = Some(LondonUK) => ~include
     /\ location \in {None, Some(<<>>)} => include
     /\ location = Some(MarsColony) => ~include

\* C7 amended: the classifier decides by the rules in their order, and
\* "San Francisco, CA" -> include, "London, UK" -> exclude, "" or absent ->
\* include, "Mars Colony" -> include (the US indicators 'ma' and 'co' are
\* substrings of it).
C7_RulesAndLiteralsMarsIncluded ==
  classified =>
     /\ include = RuleDecision(location)
     /\ location = Some(SanFranciscoCA) => include
     /\ location = Some(LondonUK) => ~include
     /\ location \in {None, Some(<<>>)} => include
     /\ location = Some(MarsColony) => include

C7_Witness ==
  /\ classified
  /\ location = Some(MarsColony)
  /\ include
  /\ ~Matches(non_us_indicators, MarsColony)
  /\ StrIn(<<"m","a">>, Lower(MarsColony))

----------------------------------------------------------------------------
(* Specifications *)

\* the classifier alone, on every input of LocationInputs
InitClassifier ==
  ClassifierInit /\ file = FileAbsent /\ StoreRest /\ TrackerRest

SpecClassifier == InitClassifier /\ [][Classify]_vars

\* one fetch cycle of the tracker, for every configuration and every answer
\* of the sources
InitTracker ==
  TrackerInit /\ file = FileAbsent /\ StoreRest /\ ClassifierRest

SpecTracker == InitTracker /\ [][TrackerNext]_vars

\* the store over the life of its file: calls, writes, process deaths
Init ==
  StoreInit /\ ClassifierRest /\ TrackerRest

Next == StoreNext

Spec == Init /\ [][Next]_vars

====
